---- MODULE Spec2Model ----
(***************************************************************************)
(* A model of coniglio (src/src/index.ts): the connection manager (login,  *)
(* cleanup, the close listener), the consume sequence (consumeGenerator,   *)
(* startConsumer), the listen pipeline and the publish gateway, run on a   *)
(* single-threaded event loop.  One action is one turn of the event loop:  *)
(* a driver event or a timer with the callbacks it runs, together with the *)
(* promise continuations (microtasks) that become runnable in that turn.   *)
(*                                                                         *)
(* The amqplib driver is not part of the repository.  It is modelled as    *)
(* the environment: connect/createChannel succeed or fail, an open         *)
(* connection may emit error+close or close alone, a channel may fail on   *)
(* its own, a subscription receives deliveries, a confirm callback is      *)
(* called with or without an error.  An operation on a closed channel      *)
(* fails (rejects).                                                        *)
(***************************************************************************)
EXTENDS Integers, Sequences, FiniteSets, TLC

\* Bounds of the model: failures the environment injects, deliveries pushed.
MaxFail == 2
MaxMsgs == 2
\* deliveries pushed when nothing fails
MaxFifoMsgs == 4
\* deliveries pushed with bodies that are or are not JSON
MaxJsonMsgs == 2
MaxPullMsgs == 3
\* a backoff sequence on its own: its parameters and the calls made
MaxBase == 3
MaxCap == 6
MaxCalls == 7

\* Sizes that follow from the bounds (no program step is ever blocked by
\* them, see TypeOK): every login sequence and every connection beyond the
\* first is the reaction to an injected failure.
MaxLogin == 3 * MaxFail + 2
MaxConn == 4 * MaxFail + 2
Logins == 1..MaxLogin
Conns == 1..MaxConn

\* getExpSleeper(1000, 30000)
SleepBase == 1000
SleepMax == 30000

RoutingKeys == {"a", "b"}
\* listen's routingKeys option: absent, or an allow-list
ListenOpts == {[filter |-> FALSE, keys |-> {}, json |-> TRUE],
               [filter |-> TRUE, keys |-> {"a"}, json |-> TRUE]}
\* ... with listen's json option: absent (enabled) or false
JsonOpts == {[filter |-> f, keys |-> IF f THEN {"a"} ELSE {}, json |-> j] : f, j \in BOOLEAN}
\* message bodies, as sequences of JSON tokens: 1, {"k":1}, {} and bodies
\* JSON.parse rejects (a bare word, a truncated object, two values, nothing)
Bodies == {<<"1">>, <<"{", "k", ":", "1", "}">>, <<"{", "}">>,
           <<"x">>, <<"{", "k", ":">>, <<"1", "1">>, <<>>}
\* the body of the deliveries whose content does not matter
DefaultBody == <<"1">>
\* publish payloads: a string, or a value that is JSON-encoded
Payloads == {[kind |-> "string", val |-> <<"m">>], [kind |-> "object", val |-> <<"m">>]}

VARIABLES
  conn,                 \* let conn: the current connection (0: undefined)
  channels,             \* channels.consumer / channels.publisher (0: undefined)
  loginInProgress,      \* the in-flight login promise (0: null)
  expSleeperPublisher,  \* [gen, cur]: the publish backoff object and its `current`
  net,                  \* the driver's objects: connections, channels, listeners
  logins,               \* the login sequences (the async IIFE of login), by id
  nLogin,               \* login sequences started so far
  main,                 \* coniglio(): [pc, aw]
  closeH,               \* the close-listener callbacks, by connection:
                        \* [pc, sl, aw, win, late, began, tore, hit]
  genPc,                \* the consume sequence / listen pipeline position
  sc,                   \* the running startConsumer / error-listener callback: [pc, aw, ch]
  opts,                 \* listen's options
  buffer,               \* consumeGenerator's buffer
  hist,                 \* what happened to deliveries: pushed, taken, yielded, nacks, cleared,
                        \* and the envelopes yielded and the caller's ack/nack calls
  pub,                  \* the publish call: [pc, aw, sl, sleeps, windows, payload,
                        \* of, began, tore, hit]
  pubLog,               \* the publish attempts of the call: [ch, body, out, sleeps, after]
  faults,               \* failures injected so far
  expSleeper            \* one backoff sequence on its own: [base, max, current, calls, delay]

vars == <<conn, channels, loginInProgress, expSleeperPublisher, net, logins, nLogin,
          main, closeH, genPc, sc, opts, buffer, hist, pub, pubLog, faults, expSleeper>>

Min(a, b) == IF a < b THEN a ELSE b

\* getExpSleeper: current = Math.min(current * 2, max)
DoubledUncapped(cur, max) == cur * 2

Doubled(cur, max) == Min(cur * 2, max)

NextCurrent(cur) == Doubled(cur, SleepMax)

\* The connection manager's state, as one record the helpers below transform.
S == [conn |-> conn, channels |-> channels, loginInProgress |-> loginInProgress,
      net |-> net, logins |-> logins, nLogin |-> nLogin]

Put(s) ==
  /\ conn' = s.conn
  /\ channels' = s.channels
  /\ loginInProgress' = s.loginInProgress
  /\ net' = s.net
  /\ logins' = s.logins
  /\ nLogin' = s.nLogin

\* cleanup(conn, channels): detach the listeners of conn and of the channels,
\* close the channels and the connection (errors swallowed).
Cleanup(s) ==
  IF s.conn = 0 THEN s
  ELSE [s EXCEPT !.net = [@ EXCEPT
          !.closeL = [@ EXCEPT ![s.conn] = 0],
          !.errL = IF @ = s.conn THEN 0 ELSE @,
          !.consOpen = @ \ {s.channels.consumer, s.conn},
          !.pubOpen = @ \ {s.channels.publisher, s.conn},
          !.open = @ \ {s.conn},
          !.torn = @ \cup {s.conn}]]

\* One iteration of login's while loop up to its first await:
\* cleanup(conn, channels), then ampqlib.connect(url) is called.
AttemptStart(s, i) ==
  [Cleanup(s) EXCEPT !.logins = [@ EXCEPT ![i] =
      [@ EXCEPT !.pc = "connect", !.attempts = @ + 1]]]

NewLogin == [pc |-> "none", cur |-> SleepBase, conn |-> 0, attempts |-> 0, fails |-> 0]

\* login(): returns the in-flight promise, or starts a login sequence.
\* The result is the new state and the id of the promise the caller awaits.
LoginCallNoGuard(s) ==
  LET id == s.nLogin + 1
      t == [s EXCEPT !.nLogin = id, !.loginInProgress = id]
  IN [s |-> AttemptStart(t, id), id |-> id]

LoginCall(s) ==
  IF s.loginInProgress # 0 THEN [s |-> s, id |-> s.loginInProgress]
  ELSE LET id == s.nLogin + 1
           t == [s EXCEPT !.nLogin = id, !.loginInProgress = id]
       IN [s |-> AttemptStart(t, id), id |-> id]

\* login's catch block: log, then await expSleeper().
OnLoginErrorRethrow(s, i) ==
  [s EXCEPT !.logins = [@ EXCEPT ![i] = [@ EXCEPT !.pc = "rejected", !.fails = @ + 1]]]

OnLoginError(s, i) ==
  [s EXCEPT !.logins = [@ EXCEPT ![i] = [@ EXCEPT !.pc = "sleep", !.fails = @ + 1]]]

Init ==
  /\ conn = 0
  /\ channels = [consumer |-> 0, publisher |-> 0]
  /\ loginInProgress = 0
  /\ expSleeperPublisher = [gen |-> 0, cur |-> SleepBase]
  /\ net = [nConn |-> 0, open |-> {}, torn |-> {}, consOpen |-> {}, pubOpen |-> {},
            closeL |-> [c \in Conns |-> 0], errL |-> 0, subs |-> {}, cancelled |-> {}]
  /\ logins = [i \in Logins |-> NewLogin]
  /\ nLogin = 0
  /\ main = [pc |-> "start", aw |-> 0]
  /\ closeH = [c \in Conns |-> [pc |-> "none", sl |-> 0, aw |-> 0, win |-> 0,
                                  late |-> FALSE, began |-> 0,
                                  tore |-> 0, hit |-> FALSE]]
  /\ genPc = "notStarted"
  /\ sc = [pc |-> "none", aw |-> 0, ch |-> 0]
  /\ opts = [filter |-> FALSE, keys |-> {}, json |-> TRUE]
  /\ buffer = <<>>
  /\ hist = [pushed |-> <<>>, taken |-> <<>>, yielded |-> <<>>, nacks |-> <<>>, cleared |-> <<>>,
             envelopes |-> <<>>, acks |-> <<>>, ops |-> {}]
  /\ pub = [pc |-> "idle", aw |-> 0, sl |-> 0, sleeps |-> 0, windows |-> <<>>,
            payload |-> [kind |-> "string", val |-> <<>>],
            of |-> 0, began |-> 0, tore |-> 0, hit |-> FALSE]
  /\ pubLog = <<>>
  /\ faults = 0
  /\ expSleeper = [base |-> 0, max |-> 0, current |-> 0, calls |-> 0, delay |-> 0]

consumerVars == <<genPc, sc, opts, buffer, hist>>
publisherVars == <<pub, pubLog, expSleeperPublisher>>

(***************************************************************************)
(* The continuations of `await login()`                                    *)
(***************************************************************************)
\* w awaits the promise of login sequence i
Waits(w, i) == w.pc = "awaitLogin" /\ w.aw = i

\* the channel reference a call is made on, for the calls that leave no
\* other record: channels.consumer.prefetch / .consume (lines 98, 104),
\* and configure's channel = channels.publisher (line 173)
PrefetchOp == [op |-> "prefetch", role |-> "consumer"]

ConsumeOpOnPublisher == [op |-> "consume", role |-> "publisher"]

ConsumeOp == [op |-> "consume", role |-> "consumer"]

ConfigureOp(op) == [op |-> op, role |-> "publisher"]

Issue(h, x) == [h EXCEPT !.ops = @ \cup {x}]

\* startConsumer up to its await: channels.consumer.prefetch(prefetch).
\* On a closed channel the call rejects and the await throws.
PrefetchCall(s) ==
  IF s.channels.consumer \in s.net.consOpen
  THEN [pc |-> "prefetch", aw |-> 0, ch |-> s.channels.consumer]
  ELSE [pc |-> "failed", aw |-> 0, ch |-> 0]

\* typeof payload === 'string' ? payload : JSON.stringify(payload)
Serialize(p) == IF p.kind = "string" THEN p.val ELSE <<"{">> \o p.val \o <<"}">>

\* publish's catch block: log, then await expSleeperPublisher(): the call
\* goes to the sleeper g that expSleeperPublisher holds now, and its delay is
\* drawn from the window [current/2, current) of that sleeper
OnPublishError(p, g) ==
  [p EXCEPT !.pc = "sleep", !.sl = g.gen, !.windows = Append(@, g.cur)]

\* one iteration of publish's loop up to its await: channel.publish(...) on
\* channels.publisher; on a closed or missing channel the call throws.
\* The result is the call's new position and the attempt's record.
Attempt(s, p, g) ==
  LET ch == s.channels.publisher
      e == [role |-> "publisher", ch |-> ch, body |-> Serialize(p.payload), out |-> "pending",
                    sleeps |-> p.sleeps, after |-> p.aw]
  IN IF ch \in s.net.pubOpen
     THEN [pub |-> [p EXCEPT !.pc = "confirm"], e |-> e]
     ELSE [pub |-> OnPublishError(p, g), e |-> [e EXCEPT !.out = "throw"]]

(***************************************************************************)
(* coniglio(): await login(), then return the instance                     *)
(***************************************************************************)
Start ==
  /\ main.pc = "start"
  /\ LET r == LoginCall(S) IN
       /\ Put(r.s)
       /\ main' = [pc |-> "awaitLogin", aw |-> r.id]
  /\ UNCHANGED <<closeH, consumerVars, publisherVars, faults, expSleeper>>

(***************************************************************************)
(* login: the steps of the async IIFE                                      *)
(***************************************************************************)
\* conn = await ampqlib.connect(url); the listeners; conn.createChannel() is called
ConnectOk(i) ==
  /\ logins[i].pc = "connect"
  /\ LET c == net.nConn + 1 IN
       /\ conn' = c
       /\ net' = [net EXCEPT !.nConn = c, !.open = @ \cup {c}, !.closeL = [@ EXCEPT ![c] = i]]
       /\ logins' = [logins EXCEPT ![i] = [@ EXCEPT !.pc = "consumer", !.conn = c]]
  /\ UNCHANGED <<channels, loginInProgress, nLogin, main, closeH, consumerVars,
                 publisherVars, faults, expSleeper>>

ConnectFail(i) ==
  /\ logins[i].pc = "connect"
  /\ faults < MaxFail
  /\ faults' = faults + 1
  /\ Put(OnLoginError(S, i))
  /\ UNCHANGED <<main, closeH, consumerVars, publisherVars, expSleeper>>

\* channels.consumer = await conn.createChannel(); conn.createConfirmChannel() is called
ConsumerCreatedAndPublished(s, i) ==
  [s EXCEPT !.channels = [@ EXCEPT !.consumer = s.logins[i].conn],
            !.net = [@ EXCEPT !.consOpen = @ \cup {s.logins[i].conn}],
            !.loginInProgress = 0,
            !.logins = [@ EXCEPT ![i] = [@ EXCEPT !.pc = "publisher", !.conn = s.conn]]]

ConsumerCreated(s, i) ==
  [s EXCEPT !.channels = [@ EXCEPT !.consumer = s.logins[i].conn],
            !.net = [@ EXCEPT !.consOpen = @ \cup {s.logins[i].conn}],
            !.logins = [@ EXCEPT ![i] = [@ EXCEPT !.pc = "publisher", !.conn = s.conn]]]

CreateConsumerOk(i) ==
  /\ logins[i].pc = "consumer"
  /\ logins[i].conn \in net.open
  /\ Put(ConsumerCreated(S, i))
  /\ UNCHANGED <<main, closeH, consumerVars, publisherVars, faults, expSleeper>>

\* createChannel rejects: the connection died, or the broker refuses the channel
CreateConsumerFail(i) ==
  /\ logins[i].pc = "consumer"
  /\ logins[i].conn \notin net.open \/ faults < MaxFail
  /\ faults' = IF logins[i].conn \in net.open THEN faults + 1 ELSE faults
  /\ Put(OnLoginError(S, i))
  /\ UNCHANGED <<main, closeH, consumerVars, publisherVars, expSleeper>>

\* channels.publisher = await conn.createConfirmChannel();
\* loginInProgress = null; return
LoginSuccess(s, i) ==
  [s EXCEPT !.channels = [@ EXCEPT !.publisher = s.logins[i].conn],
            !.net = [@ EXCEPT !.pubOpen = @ \cup {s.logins[i].conn}],
            !.loginInProgress = 0,
            !.logins = [@ EXCEPT ![i] = [@ EXCEPT !.pc = "done"]]]

\* ... and expSleeperPublisher = getExpSleeper(1000, 30000) (line 78); then the
\* callers awaiting this login continue: coniglio returns the instance, the
\* error listener calls startConsumer, publish repeats its loop
CreatePublisherOk(i) ==
  /\ logins[i].pc = "publisher"
  /\ logins[i].conn \in net.open
  /\ LET s == LoginSuccess(S, i)
         g == [gen |-> expSleeperPublisher.gen + 1, cur |-> SleepBase]
         a == Attempt(s, pub, g)
     IN /\ Put(s)
        /\ expSleeperPublisher' = g
        /\ main' = IF Waits(main, i) THEN [main EXCEPT !.pc = "ready"] ELSE main
        /\ closeH' = [c \in Conns |-> IF Waits(closeH[c], i)
                                      THEN [closeH[c] EXCEPT !.pc = "done"] ELSE closeH[c]]
        /\ sc' = IF Waits(sc, i) THEN PrefetchCall(s) ELSE sc
        /\ pub' = IF Waits(pub, i) THEN a.pub ELSE pub
        /\ pubLog' = IF Waits(pub, i) THEN Append(pubLog, a.e) ELSE pubLog
        /\ hist' = IF Waits(sc, i) THEN Issue(hist, PrefetchOp) ELSE hist
  /\ UNCHANGED <<genPc, opts, buffer, faults, expSleeper>>

CreatePublisherFail(i) ==
  /\ logins[i].pc = "publisher"
  /\ logins[i].conn \notin net.open \/ faults < MaxFail
  /\ faults' = IF logins[i].conn \in net.open THEN faults + 1 ELSE faults
  /\ Put(OnLoginError(S, i))
  /\ UNCHANGED <<main, closeH, consumerVars, publisherVars, expSleeper>>

\* the catch block's await expSleeper() returns: current doubles, the loop repeats
LoginSleepDone(i) ==
  /\ logins[i].pc = "sleep"
  /\ Put(AttemptStart([S EXCEPT !.logins = [@ EXCEPT ![i] =
                          [@ EXCEPT !.cur = NextCurrent(@)]]], i))
  /\ UNCHANGED <<main, closeH, consumerVars, publisherVars, faults, expSleeper>>

(***************************************************************************)
(* The driver's events on a connection and on its channels                 *)
(***************************************************************************)
\* the connection object c is gone: it and its channels are closed
Dead(s, c) ==
  [s EXCEPT !.net = [@ EXCEPT !.open = @ \ {c}, !.consOpen = @ \ {c}, !.pubOpen = @ \ {c}]]

\* emit('error') on connection c: login's listener logs; startConsumer's
\* listener (line 100), if attached to c, calls login() and awaits it.
\* The result is the new state and the consumer callback's new position.
EmitError(s, c) ==
  IF s.net.errL = c
  THEN LET r == LoginCall([s EXCEPT !.net = [@ EXCEPT !.errL = 0]])
       IN [s |-> r.s, sc |-> [pc |-> "awaitLogin", aw |-> r.id, ch |-> 0]]
  ELSE [s |-> s, sc |-> sc]

\* emit('close') on connection c: login's close listener (line 69), if still
\* attached, starts: it awaits the expSleeper of the login that attached it,
\* whose delay is drawn from the window [current/2, current) of that sleeper.
EmitClose(s, c) ==
  IF s.net.closeL[c] # 0
  THEN [s |-> [s EXCEPT !.net = [@ EXCEPT !.closeL = [@ EXCEPT ![c] = 0]]],
        h |-> [pc |-> "sleep", sl |-> s.net.closeL[c], aw |-> 0,
               win |-> s.logins[s.net.closeL[c]].cur, late |-> FALSE, began |-> 0,
               tore |-> 0, hit |-> FALSE]]
  ELSE [s |-> s, h |-> closeH[c]]

\* the connection fails: 'error', then 'close', in the same turn
ConnError(c) ==
  /\ c \in net.open
  /\ faults < MaxFail
  /\ faults' = faults + 1
  /\ LET e == EmitError(Dead(S, c), c)
         k == EmitClose(e.s, c)
     IN /\ Put(k.s)
        /\ sc' = e.sc
        /\ closeH' = [closeH EXCEPT ![c] = k.h]
  /\ UNCHANGED <<main, genPc, opts, buffer, hist, publisherVars, expSleeper>>

\* the connection closes with no 'error' event (the broker shuts down cleanly)
ConnClose(c) ==
  /\ c \in net.open
  /\ faults < MaxFail
  /\ faults' = faults + 1
  /\ LET k == EmitClose(Dead(S, c), c)
     IN /\ Put(k.s)
        /\ closeH' = [closeH EXCEPT ![c] = k.h]
  /\ UNCHANGED <<main, consumerVars, publisherVars, expSleeper>>

\* a channel-level error: the channel closes, its 'error' listener logs
ConsumerChannelError(c) ==
  /\ c \in net.consOpen
  /\ faults < MaxFail
  /\ faults' = faults + 1
  /\ net' = [net EXCEPT !.consOpen = @ \ {c}]
  /\ UNCHANGED <<conn, channels, loginInProgress, logins, nLogin, main, closeH,
                 consumerVars, publisherVars, expSleeper>>

PublisherChannelError(c) ==
  /\ c \in net.pubOpen
  /\ faults < MaxFail
  /\ faults' = faults + 1
  /\ net' = [net EXCEPT !.pubOpen = @ \ {c}]
  /\ UNCHANGED <<conn, channels, loginInProgress, logins, nLogin, main, closeH,
                 consumerVars, publisherVars, expSleeper>>

\* the close listener's await login() (line 72)
ReconnectSkipped(s) == [s |-> s, id |-> s.loginInProgress]

Reconnect(s) == LoginCall(s)

\* the close listener's await expSleeper() returns: await login().  late and
\* began record whether cleanup had already been applied to the listener's
\* connection when the call is made, and the login sequence the call starts;
\* tore and hit record the connection that sequence's first cleanup is applied
\* to, and whether that connection was open.
CloseHandlerWake(c) ==
  /\ closeH[c].pc = "sleep"
  /\ LET i == closeH[c].sl
         r == Reconnect([S EXCEPT !.logins = [@ EXCEPT ![i] =
                            [@ EXCEPT !.cur = NextCurrent(@)]]])
     IN /\ Put(r.s)
        /\ closeH' = [closeH EXCEPT ![c] =
              [@ EXCEPT !.pc = "awaitLogin", !.aw = r.id,
                        !.late = c \in net.torn,
                        !.began = IF r.s.nLogin # nLogin THEN r.id ELSE 0,
                        !.tore = IF r.s.nLogin # nLogin THEN conn ELSE 0,
                        !.hit = r.s.nLogin # nLogin /\ conn \in net.open]]
  /\ UNCHANGED <<main, consumerVars, publisherVars, faults, expSleeper>>

(***************************************************************************)
(* consumeGenerator / startConsumer / listen                               *)
(***************************************************************************)
\* the caller's first next() on listen(queue, opts): consumeGenerator starts
\* and awaits startConsumer() (line 111); a rejection of that await leaves
\* consumeGenerator and, through for await, listen: the caller's next() rejects
Listen(o) ==
  /\ main.pc = "ready"
  /\ genPc = "notStarted"
  /\ opts' = o
  /\ sc' = PrefetchCall(S)
  /\ hist' = Issue(hist, PrefetchOp)
  /\ genPc' = IF PrefetchCall(S).pc = "failed" THEN "thrown" ELSE "setup"
  /\ UNCHANGED <<conn, channels, loginInProgress, net, logins, nLogin, main, closeH,
                 buffer, publisherVars, faults, expSleeper>>

\* prefetch resolved: buffer.length = 0; conn.once('error', ...);
\* channels.consumer.consume(queue, callback) (not awaited).  The first
\* startConsumer returns into the pull loop, which finds the buffer empty
\* and awaits ready().
PrefetchOk ==
  /\ sc.pc = "prefetch"
  /\ sc.ch \in net.consOpen
  /\ hist' = Issue([hist EXCEPT !.cleared = @ \o buffer], ConsumeOp)
  /\ buffer' = <<>>
  /\ net' = [net EXCEPT !.errL = conn,
                        !.subs = IF channels.consumer \in net.consOpen
                                 THEN @ \cup {channels.consumer} ELSE @]
  /\ sc' = [pc |-> "armed", aw |-> 0, ch |-> 0]
  /\ genPc' = IF genPc = "setup" THEN "waiting" ELSE genPc
  /\ UNCHANGED <<conn, channels, loginInProgress, logins, nLogin, main, closeH,
                 opts, publisherVars, faults, expSleeper>>

\* the channel died while prefetch was awaited: the await throws
PrefetchFail ==
  /\ sc.pc = "prefetch"
  /\ sc.ch \notin net.consOpen
  /\ sc' = [pc |-> "failed", aw |-> 0, ch |-> 0]
  /\ genPc' = IF genPc = "setup" THEN "thrown" ELSE genPc
  /\ UNCHANGED <<conn, channels, loginInProgress, net, logins, nLogin, main, closeH,
                 opts, buffer, hist, publisherVars, faults, expSleeper>>

\* the delivery the broker pushes next on consumer channel c
Delivery(c, rk, b) ==
  [id |-> Len(hist.pushed) + 1, rk |-> rk, ch |-> c, body |-> b,
   tag |-> 1 + Cardinality({k \in 1..Len(hist.pushed) : hist.pushed[k].ch = c})]

\* the consume callback: buffer.push(msg)
BufferPushTwice(buf, m) == Append(Append(buf, m), m)

BufferPush(buf, m) == Append(buf, m)

\* buffer.shift(): the item and the rest
BufferPopLast(buf) == [item |-> buf[Len(buf)], rest |-> SubSeq(buf, 1, Len(buf) - 1)]

BufferShift(buf) == [item |-> Head(buf), rest |-> Tail(buf)]

\* listen's filter (line 135)
RejectedNever(o, m) == FALSE

Rejected(o, m) == o.filter /\ m.rk \notin o.keys

\* the value JSON.parse gives for no input
Undefined == <<"undefined">>

\* JSON.parse on a token sequence: the value at its head and the tokens left.
\* Values: the number 1, the string "k", {} and {"k": value}.
NoParse == [ok |-> FALSE, val |-> Undefined, rest |-> <<>>]

RECURSIVE ParseValue(_)
ParseValue(t) ==
  IF t = <<>> THEN NoParse
  ELSE CASE Head(t) = "1" -> [ok |-> TRUE, val |-> <<"num">>, rest |-> Tail(t)]
         [] Head(t) = "k" -> [ok |-> TRUE, val |-> <<"str">>, rest |-> Tail(t)]
         [] Head(t) = "{" ->
              IF Len(t) >= 2 /\ t[2] = "}"
              THEN [ok |-> TRUE, val |-> <<"obj", "end">>, rest |-> SubSeq(t, 3, Len(t))]
              ELSE IF Len(t) >= 3 /\ t[2] = "k" /\ t[3] = ":"
              THEN LET r == ParseValue(SubSeq(t, 4, Len(t)))
                   IN IF r.ok /\ r.rest # <<>> /\ Head(r.rest) = "}"
                      THEN [ok |-> TRUE, val |-> <<"obj", "k">> \o r.val \o <<"end">>,
                            rest |-> Tail(r.rest)]
                      ELSE NoParse
              ELSE NoParse
         [] OTHER -> NoParse

\* safeJson: JSON.parse(buf.toString()), undefined when it throws
SafeJsonPrefix(buf) == ParseValue(buf).val

SafeJson(buf) ==
  LET r == ParseValue(buf) IN IF r.ok /\ r.rest = <<>> THEN r.val ELSE Undefined

\* listen's envelope (line 140)
Envelope(m, o) ==
  LET parsed == IF o.json THEN SafeJson(m.body) ELSE Undefined
  IN [raw |-> m, content |-> m.body, data |-> parsed,
      contentIsJson |-> parsed # Undefined, routingKey |-> m.rk]

\* channels.consumer.nack(msg, false, false): the call is made on the current
\* consumer channel; on a closed channel it throws
AutoNack(m) ==
  [msg |-> m, role |-> "consumer", ch |-> channels.consumer,
   allUpTo |-> FALSE, requeue |-> FALSE, by |-> "listen",
   out |-> IF channels.consumer \in net.consOpen THEN "sent" ELSE "throw"]

\* The pull loop (lines 113-118) driven by listen's for await (lines 128-141),
\* from the loop's head to the next suspension: each buffered delivery is
\* shifted and either rejected by listen (nack, continue) or yielded as an
\* envelope to the caller; with the buffer empty the loop awaits ready().
\* A nack that throws leaves listen: the caller's next() rejects.
RECURSIVE Drain(_, _, _)
Drain(buf, h, o) ==
  IF buf = <<>> THEN [buffer |-> buf, hist |-> h, pc |-> "waiting"]
  ELSE LET x == BufferShift(buf) IN
       IF Rejected(o, x.item)
       THEN LET n == AutoNack(x.item)
                g == [h EXCEPT !.taken = Append(@, x.item), !.nacks = Append(@, n)]
            IN IF n.out = "throw"
               THEN [buffer |-> x.rest, hist |-> g, pc |-> "thrown"]
               ELSE Drain(x.rest, g, o)
       ELSE [buffer |-> x.rest,
             hist |-> [h EXCEPT !.taken = Append(@, x.item), !.yielded = Append(@, x.item),
                                !.envelopes = Append(@, Envelope(x.item, o))],
             pc |-> "yielded"]

\* the consume callback (lines 104-108): buffer.push(msg); notify().  notify
\* resolves the promise the pull loop awaits, if it awaits one.
PushUpTo(c, rk, body, n) ==
  /\ c \in (net.subs \ net.cancelled) \cap net.consOpen
  /\ Len(hist.pushed) < n
  /\ LET m == Delivery(c, rk, body)
         b == BufferPush(buffer, m)
         h == [hist EXCEPT !.pushed = Append(@, m)]
         d == IF genPc = "waiting" THEN Drain(b, h, opts)
              ELSE [buffer |-> b, hist |-> h, pc |-> genPc]
     IN /\ buffer' = d.buffer
        /\ hist' = d.hist
        /\ genPc' = d.pc
  /\ UNCHANGED <<conn, channels, loginInProgress, net, logins, nLogin, main, closeH,
                 sc, opts, publisherVars, faults, expSleeper>>

Push(c, rk) == PushUpTo(c, rk, DefaultBody, MaxMsgs)

PushFifo(c, rk) == PushUpTo(c, rk, DefaultBody, MaxFifoMsgs)

PushJson(c, rk, b) == PushUpTo(c, rk, b, MaxJsonMsgs)

\* the broker cancels the consumer: the callback is called with null (line 105)
PushNull(c) ==
  /\ c \in (net.subs \ net.cancelled) \cap net.consOpen
  /\ faults < MaxFail
  /\ faults' = faults + 1
  /\ net' = [net EXCEPT !.cancelled = @ \cup {c}]
  /\ UNCHANGED <<conn, channels, loginInProgress, logins, nLogin, main, closeH,
                 consumerVars, publisherVars, expSleeper>>

\* the caller asks for the next envelope: the pull loop continues
Pull ==
  /\ genPc = "yielded"
  /\ LET d == Drain(buffer, hist, opts)
     IN /\ buffer' = d.buffer
        /\ hist' = d.hist
        /\ genPc' = d.pc
  /\ UNCHANGED <<conn, channels, loginInProgress, net, logins, nLogin, main, closeH,
                 sc, opts, publisherVars, faults, expSleeper>>

\* notify(): resolves the promise made by the last ready() (line 95).  A
\* pull loop suspended on that promise is scheduled to continue; a promise
\* already resolved, or the initial no-op notify, changes nothing.
NotifiedNever(pc) == pc

Notified(pc) == IF pc = "waiting" THEN "woken" ELSE pc

\* the consume callback alone (lines 104-108), for a turn in which the driver
\* dispatches several deliveries before the pull loop's continuation runs
PushCb(c, rk) ==
  /\ c \in (net.subs \ net.cancelled) \cap net.consOpen
  /\ Len(hist.pushed) < MaxPullMsgs
  /\ LET m == Delivery(c, rk, DefaultBody)
     IN /\ buffer' = BufferPush(buffer, m)
        /\ hist' = [hist EXCEPT !.pushed = Append(@, m)]
  /\ genPc' = Notified(genPc)
  /\ UNCHANGED <<conn, channels, loginInProgress, net, logins, nLogin, main, closeH,
                 sc, opts, publisherVars, faults, expSleeper>>

\* the continuation of await ready() (line 117): back to the loop's head
Resume ==
  /\ genPc = "woken"
  /\ LET d == Drain(buffer, hist, opts)
     IN /\ buffer' = d.buffer
        /\ hist' = d.hist
        /\ genPc' = d.pc
  /\ UNCHANGED <<conn, channels, loginInProgress, net, logins, nLogin, main, closeH,
                 sc, opts, publisherVars, faults, expSleeper>>

(***************************************************************************)
(* ack / nack                                                              *)
(***************************************************************************)
\* channels.consumer.ack(msg.raw) / channels.consumer.nack(msg.raw, false, requeue)
\* for the k-th envelope yielded: the call goes to the current consumer
\* channel with the delivery tag of the raw delivery; on a closed channel it
\* throws
SettleCall(k, op, rq) ==
  [env |-> k, op |-> op, msg |-> hist.envelopes[k].raw, role |-> "consumer",
   ch |-> channels.consumer, tag |-> hist.envelopes[k].raw.tag,
   allUpTo |-> FALSE, requeue |-> rq,
   out |-> IF channels.consumer \in net.consOpen THEN "sent" ELSE "throw"]

\* the caller settles an envelope it received and has not settled yet
Settle(k, op, rq) ==
  /\ k \in 1..Len(hist.envelopes)
  /\ \A j \in 1..Len(hist.acks) : hist.acks[j].env # k
  /\ hist' = [hist EXCEPT !.acks = Append(@, SettleCall(k, op, rq))]
  /\ UNCHANGED <<conn, channels, loginInProgress, net, logins, nLogin, main, closeH,
                 genPc, sc, opts, buffer, publisherVars, faults, expSleeper>>

Ack(k) == Settle(k, "ack", FALSE)

Nack(k, rq) == Settle(k, "nack", rq)

(***************************************************************************)
(* publish                                                                 *)
(***************************************************************************)
Publish(p) ==
  /\ main.pc = "ready"
  /\ pub.pc = "idle"
  /\ LET a == Attempt(S, [pub EXCEPT !.payload = p], expSleeperPublisher)
     IN /\ pub' = a.pub
        /\ pubLog' = Append(pubLog, a.e)
  /\ UNCHANGED <<conn, channels, loginInProgress, net, logins, nLogin, main, closeH,
                 consumerVars, expSleeperPublisher, faults, expSleeper>>

\* the confirm callback (line 158): if (err) reject(err) else resolve();
\* resolve() leads to return, reject(err) to the catch block
OnConfirmAlwaysResolve(p, err, g) == [p EXCEPT !.pc = "resolved"]

OnConfirm(p, err, g) == IF err THEN OnPublishError(p, g) ELSE [p EXCEPT !.pc = "resolved"]

SetOut(log, out) == [log EXCEPT ![Len(log)] = [@ EXCEPT !.out = out]]

ConfirmOk ==
  /\ pub.pc = "confirm"
  /\ pubLog[Len(pubLog)].ch \in net.pubOpen
  /\ pub' = OnConfirm(pub, FALSE, expSleeperPublisher)
  /\ pubLog' = SetOut(pubLog, "ok")
  /\ UNCHANGED <<conn, channels, loginInProgress, net, logins, nLogin, main, closeH,
                 consumerVars, expSleeperPublisher, faults, expSleeper>>

\* the broker rejects the message, or the channel closed with the confirm pending
ConfirmErr ==
  /\ pub.pc = "confirm"
  /\ pubLog[Len(pubLog)].ch \notin net.pubOpen \/ faults < MaxFail
  /\ faults' = IF pubLog[Len(pubLog)].ch \in net.pubOpen THEN faults + 1 ELSE faults
  /\ pub' = OnConfirm(pub, TRUE, expSleeperPublisher)
  /\ pubLog' = SetOut(pubLog, "err")
  /\ UNCHANGED <<conn, channels, loginInProgress, net, logins, nLogin, main, closeH,
                 consumerVars, expSleeperPublisher, expSleeper>>

\* publish's catch block after the delay: await login()
ForceReconnectSkipped(s) == [s |-> s, id |-> s.loginInProgress]

ForceReconnect(s) == LoginCall(s)

\* await expSleeperPublisher() returns (current of that sleeper doubles): await login().
\* of is the channel the failed attempt was made on; began, tore and hit record
\* the login sequence the call starts, the connection its first cleanup is
\* applied to, and whether that connection was open.
PublishSleepDone ==
  /\ pub.pc = "sleep"
  /\ expSleeperPublisher' =
       IF expSleeperPublisher.gen = pub.sl
       THEN [expSleeperPublisher EXCEPT !.cur = NextCurrent(@)]
       ELSE expSleeperPublisher
  /\ LET r == ForceReconnect(S) IN
       /\ Put(r.s)
       /\ pub' = [pub EXCEPT !.pc = "awaitLogin", !.aw = r.id, !.sleeps = @ + 1,
                             !.of = pubLog[Len(pubLog)].ch,
                             !.began = IF r.s.nLogin # nLogin THEN r.id ELSE 0,
                             !.tore = IF r.s.nLogin # nLogin THEN conn ELSE 0,
                             !.hit = r.s.nLogin # nLogin /\ conn \in net.open]
  /\ UNCHANGED <<main, closeH, consumerVars, pubLog, faults, expSleeper>>

(***************************************************************************)
(* configure                                                               *)
(***************************************************************************)
\* configure's input: whether exchanges are given, and queues with bindings
ConfigInputs == [exchanges : BOOLEAN, queues : BOOLEAN, bindTo : {TRUE}]

\* configure({exchanges, queues}): channel = channels.publisher, then
\* assertExchange per exchange, assertQueue per queue and bindQueue per
\* binding of a queue, all on that channel
Configure(in) ==
  /\ main.pc = "ready"
  /\ \A x \in hist.ops : x.op \notin {"configure", "assertExchange", "assertQueue", "bindQueue"}
  /\ hist' = [hist EXCEPT !.ops = @ \cup {ConfigureOp("configure")}
                 \cup (IF in.exchanges THEN {ConfigureOp("assertExchange")} ELSE {})
                 \cup (IF in.queues THEN {ConfigureOp("assertQueue")} ELSE {})
                 \cup (IF in.queues /\ in.bindTo THEN {ConfigureOp("bindQueue")} ELSE {})]
  /\ UNCHANGED <<conn, channels, loginInProgress, net, logins, nLogin, main, closeH,
                 genPc, sc, opts, buffer, publisherVars, faults, expSleeper>>

(***************************************************************************)
(* getExpSleeper on its own.  Delays are counted in half milliseconds, so  *)
(* that current / 2 is an integer.                                         *)
(***************************************************************************)
\* the parameters: small ones, and the ones the program uses
SleeperParams ==
  {p \in (1..MaxBase) \X (1..MaxCap) : p[1] <= p[2]} \cup {<<SleepBase, SleepMax>>}

\* Math.random() * (current - min) + min with min = current / 2: the values
\* of [current / 2, current) (all of them for a small window, else the ends
\* and the middle)
Jittered(current) ==
  IF current <= MaxCap THEN current..(2 * current - 1)
  ELSE {current, current + current \div 2, 2 * current - 1}

\* const delay = Math.min(jittered, max)
DelayOf(jittered, max) == Min(jittered, 2 * max)

\* getExpSleeper(base, max): let current = base
GetExpSleeper(base, max) ==
  /\ expSleeper.base = 0
  /\ expSleeper' = [base |-> base, max |-> max, current |-> base, calls |-> 0, delay |-> 0]
  /\ UNCHANGED <<conn, channels, loginInProgress, expSleeperPublisher, net, logins, nLogin,
                 main, closeH, genPc, sc, opts, buffer, hist, pub, pubLog, faults>>

\* one call of the sleeper: the delay is drawn, slept, and current doubles
SleeperCall(jittered) ==
  /\ expSleeper.base # 0
  /\ expSleeper.calls < MaxCalls
  /\ jittered \in Jittered(expSleeper.current)
  /\ expSleeper' = [expSleeper EXCEPT !.delay = DelayOf(jittered, expSleeper.max),
                                      !.current = Doubled(@, expSleeper.max),
                                      !.calls = @ + 1]
  /\ UNCHANGED <<conn, channels, loginInProgress, expSleeperPublisher, net, logins, nLogin,
                 main, closeH, genPc, sc, opts, buffer, hist, pub, pubLog, faults>>

(***************************************************************************)
(* Specifications                                                          *)
(***************************************************************************)
\* the connection manager and the failures of connections
LoginSteps ==
  \/ Start
  \/ \E i \in Logins : ConnectOk(i)
  \/ \E i \in Logins : ConnectFail(i)
  \/ \E i \in Logins : CreateConsumerOk(i)
  \/ \E i \in Logins : CreateConsumerFail(i)
  \/ \E i \in Logins : CreatePublisherOk(i)
  \/ \E i \in Logins : CreatePublisherFail(i)
  \/ \E i \in Logins : LoginSleepDone(i)
  \/ \E c \in Conns : ConnError(c)
  \/ \E c \in Conns : ConnClose(c)
  \/ \E c \in Conns : CloseHandlerWake(c)

\* a consume sequence: its subscription
SubSteps ==
  \/ \E o \in ListenOpts : Listen(o)
  \/ PrefetchOk
  \/ PrefetchFail
  \/ \E c \in Conns : ConsumerChannelError(c)

\* a consume sequence: its deliveries
MsgSteps ==
  \/ \E c \in Conns, rk \in RoutingKeys : Push(c, rk)
  \/ \E c \in Conns : PushNull(c)
  \/ Pull

\* the caller's ack and nack calls
AckSteps ==
  \/ \E k \in 1..MaxMsgs : Ack(k)
  \/ \E k \in 1..MaxMsgs, rq \in BOOLEAN : Nack(k, rq)

\* a publish call
PubSteps ==
  \/ \E c \in Conns : PublisherChannelError(c)
  \/ \E p \in Payloads : Publish(p)
  \/ ConfirmOk
  \/ ConfirmErr
  \/ PublishSleepDone

\* a consume sequence on a broker and a network that do not fail
FifoSteps ==
  \/ Start
  \/ \E i \in Logins : ConnectOk(i)
  \/ \E i \in Logins : CreateConsumerOk(i)
  \/ \E i \in Logins : CreatePublisherOk(i)
  \/ \E o \in ListenOpts : Listen(o)
  \/ PrefetchOk
  \/ \E c \in Conns, rk \in RoutingKeys : PushFifo(c, rk)
  \/ Pull

\* a consume sequence with bodies of every kind, nothing failing
JsonSteps ==
  \/ Start
  \/ \E i \in Logins : ConnectOk(i)
  \/ \E i \in Logins : CreateConsumerOk(i)
  \/ \E i \in Logins : CreatePublisherOk(i)
  \/ \E o \in JsonOpts : Listen(o)
  \/ PrefetchOk
  \/ \E c \in Conns, rk \in RoutingKeys, b \in Bodies : PushJson(c, rk, b)
  \/ Pull

\* a configure call
ConfigSteps == \E in \in ConfigInputs : Configure(in)

\* the caller has not published, settled or configured anything yet
CallerIdle ==
  /\ pub.pc = "idle"
  /\ hist.acks = <<>>
  /\ hist.ops \subseteq {PrefetchOp, ConsumeOp}

\* the caller is in the body of its for await loop with the k-th envelope
Holding(k) == genPc = "yielded" /\ k = Len(hist.envelopes)

\* every operation of the instance; connections fail while the caller only
\* consumes, and then the caller publishes, configures, and settles each
\* envelope in its loop body (listen with an allow-list, so that listen
\* rejects deliveries; one kind of payload)
ChannelSteps ==
  \/ Start
  \/ \E i \in Logins : ConnectOk(i)
  \/ \E i \in Logins : CreateConsumerOk(i)
  \/ \E i \in Logins : CreatePublisherOk(i)
  \/ \E c \in Conns : CallerIdle /\ ConnError(c)
  \/ \E c \in Conns : CloseHandlerWake(c)
  \/ \E o \in {x \in ListenOpts : x.filter} : Listen(o)
  \/ PrefetchOk
  \/ PrefetchFail
  \/ \E c \in Conns, rk \in RoutingKeys : Push(c, rk)
  \/ Pull
  \/ \E k \in 1..MaxMsgs : Holding(k) /\ Ack(k)
  \/ \E k \in 1..MaxMsgs, rq \in BOOLEAN : Holding(k) /\ Nack(k, rq)
  \/ \E p \in {x \in Payloads : x.kind = "object"} : Publish(p)
  \/ ConfirmOk
  \/ PublishSleepDone
  \/ ConfigSteps

\* the pull loop against the consume callback, on a healthy connection
PullSteps ==
  \/ Start
  \/ \E i \in Logins : ConnectOk(i)
  \/ \E i \in Logins : CreateConsumerOk(i)
  \/ \E i \in Logins : CreatePublisherOk(i)
  \/ \E o \in ListenOpts : Listen(o)
  \/ PrefetchOk
  \/ \E c \in Conns, rk \in RoutingKeys : PushCb(c, rk)
  \/ Resume
  \/ Pull

\* a backoff sequence
BackoffSteps ==
  \/ \E p \in SleeperParams : GetExpSleeper(p[1], p[2])
  \/ \E j \in Jittered(expSleeper.current) : SleeperCall(j)

Next ==
  LoginSteps \/ SubSteps \/ MsgSteps \/ AckSteps \/ PubSteps \/ ConfigSteps \/ BackoffSteps
    \/ PullSteps

\* the whole instance
Spec == Init /\ [][Next]_vars

\* everything that calls login(): the close listeners, a consume sequence's
\* error listener, a publish call
SpecLogin == Init /\ [][LoginSteps \/ SubSteps \/ PubSteps]_vars

\* the connection manager with a consume sequence and its deliveries
SpecConsume == Init /\ [][LoginSteps \/ SubSteps \/ MsgSteps]_vars

\* ... and the caller's ack and nack calls
SpecAck == Init /\ [][LoginSteps \/ SubSteps \/ MsgSteps \/ AckSteps]_vars

\* the connection manager with a publish call
SpecPublish == Init /\ [][LoginSteps \/ PubSteps]_vars

SpecFifo == Init /\ [][FifoSteps]_vars

SpecJson == Init /\ [][JsonSteps]_vars

SpecChannels == Init /\ [][ChannelSteps]_vars

SpecBackoff == Init /\ [][BackoffSteps]_vars

SpecPull == Init /\ [][PullSteps]_vars

\* SpecPublish on an event loop that runs every timer and continuation, with
\* a driver that answers every request (connect, createChannel, publish)
FairPublish ==
  /\ SpecPublish
  /\ WF_vars(Start)
  /\ WF_vars(\E i \in Logins : ConnectOk(i))
  /\ WF_vars(\E i \in Logins : CreateConsumerOk(i))
  /\ WF_vars(\E i \in Logins : CreateConsumerFail(i))
  /\ WF_vars(\E i \in Logins : CreatePublisherOk(i))
  /\ WF_vars(\E i \in Logins : CreatePublisherFail(i))
  /\ WF_vars(\E i \in Logins : LoginSleepDone(i))
  /\ WF_vars(\E c \in Conns : CloseHandlerWake(c))
  /\ WF_vars(ConfirmOk)
  /\ WF_vars(ConfirmErr)
  /\ WF_vars(PublishSleepDone)

\* SpecLogin on such an event loop and driver
FairLogin ==
  /\ SpecLogin
  /\ WF_vars(Start)
  /\ WF_vars(\E i \in Logins : ConnectOk(i))
  /\ WF_vars(\E i \in Logins : CreateConsumerOk(i))
  /\ WF_vars(\E i \in Logins : CreateConsumerFail(i))
  /\ WF_vars(\E i \in Logins : CreatePublisherOk(i))
  /\ WF_vars(\E i \in Logins : CreatePublisherFail(i))
  /\ WF_vars(\E i \in Logins : LoginSleepDone(i))
  /\ WF_vars(\E c \in Conns : CloseHandlerWake(c))
  /\ WF_vars(PrefetchOk)
  /\ WF_vars(PrefetchFail)
  /\ WF_vars(ConfirmOk)
  /\ WF_vars(ConfirmErr)
  /\ WF_vars(PublishSleepDone)

(***************************************************************************)
(* The shape of the state; the sizes MaxLogin and MaxConn are never reached *)
(***************************************************************************)
TypeOK ==
  /\ conn \in 0..MaxConn
  /\ nLogin < MaxLogin
  /\ net.nConn < MaxConn
  /\ loginInProgress \in 0..nLogin
  /\ net.open \subseteq 1..net.nConn
  /\ net.errL # 0 => sc.pc = "armed"
  /\ faults \in 0..MaxFail
  /\ Len(hist.pushed) <= MaxFifoMsgs

(***************************************************************************)
(* Claims                                                                  *)
(***************************************************************************)
Range(q) == {q[k] : k \in 1..Len(q)}
Last(q) == q[Len(q)]

\* the login sequences that have started and not returned
ActiveLogins == {i \in Logins : logins[i].pc \notin {"none", "done"}}

\* the logins that callers of login() are awaiting
AwaitedLogins ==
  (IF main.pc = "awaitLogin" THEN {main.aw} ELSE {})
  \cup (IF sc.pc = "awaitLogin" THEN {sc.aw} ELSE {})
  \cup (IF pub.pc = "awaitLogin" THEN {pub.aw} ELSE {})
  \cup {closeH[c].aw : c \in {d \in Conns : closeH[d].pc = "awaitLogin"}}

\* the callers of login() that are awaiting it
NumAwaiting ==
  (IF main.pc = "awaitLogin" THEN 1 ELSE 0) + (IF sc.pc = "awaitLogin" THEN 1 ELSE 0)
  + (IF pub.pc = "awaitLogin" THEN 1 ELSE 0)
  + Cardinality({d \in Conns : closeH[d].pc = "awaitLogin"})

\* C1: at most one login sequence runs at any time, it is the one
\* loginInProgress names, and every caller of login() that is awaiting awaits
\* that one: a call made while a login is in progress starts no login and
\* returns when the in-flight login returns.
C1_SingleLogin ==
  /\ Cardinality(ActiveLogins) <= 1
  /\ ActiveLogins = (IF loginInProgress = 0 THEN {} ELSE {loginInProgress})
  /\ AwaitedLogins \subseteq ActiveLogins

\* two callers await the same in-flight login, after the first login
C1_Witness ==
  /\ NumAwaiting >= 2
  /\ loginInProgress > 1
  /\ AwaitedLogins = {loginInProgress}

\* C2: in an attempt the connection is opened, then the consumer channel, then
\* the publisher channel; the marker is cleared and coniglio() returns only
\* after all three: with no login in progress after the first call, both
\* channels were created on the current connection.
C2_NoPartialInit ==
  /\ \A i \in ActiveLogins :
        /\ logins[i].pc = "consumer" => conn = logins[i].conn /\ channels.consumer # conn
        /\ logins[i].pc = "publisher" => channels.consumer = conn /\ channels.publisher # conn
  /\ (loginInProgress = 0 /\ nLogin > 0) =>
        conn # 0 /\ channels.consumer = conn /\ channels.publisher = conn
  /\ main.pc = "ready" => logins[1].pc = "done"

\* a reconnect completed: the second connection carries both channels
C2_Witness ==
  /\ loginInProgress = 0
  /\ conn > 1
  /\ channels = [consumer |-> conn, publisher |-> conn]
  /\ main.pc = "ready"

\* nothing the program started is still running, and the connection works
Quiet ==
  /\ loginInProgress = 0
  /\ \A c \in Conns : closeH[c].pc \notin {"sleep", "awaitLogin"}
  /\ sc.pc \notin {"prefetch", "awaitLogin"}
  /\ pub.pc \notin {"sleep", "awaitLogin"}
  /\ conn \in net.open
  /\ channels.consumer \in net.consOpen

\* C3: a consume sequence whose subscription was set up is subscribed again
\* after every completed reconnect: once the reconnect is over and nothing is
\* left to run, the consume callback is registered on the current consumer
\* channel.
C3_ResumesAfterReconnect ==
  (genPc \in {"waiting", "yielded"} /\ Quiet) => channels.consumer \in net.subs

\* C4: publish resolves only after a confirm callback without an error: the
\* attempt it returns from is one whose callback was called with no error.
C4_ResolvesOnlyConfirmed ==
  pub.pc = "resolved" =>
    /\ pubLog # <<>>
    /\ Last(pubLog).out = "ok"
    /\ \A j \in 1..Len(pubLog) : pubLog[j].out # "pending"

\* publish resolved after an attempt whose confirm reported an error
C4_Witness ==
  /\ pub.pc = "resolved"
  /\ \E j \in 1..Len(pubLog) : pubLog[j].out = "err"

C5_Attempts ==
  pub.pc = "resolved" =>
    /\ \A j \in 1..(Len(pubLog) - 1) : pubLog[j].out \in {"err", "throw"}
    /\ \A j, k \in 1..Len(pubLog) : pubLog[j].body = pubLog[k].body
    /\ \A j \in 2..Len(pubLog) :
          /\ pubLog[j].sleeps = j - 1
          /\ pubLog[j].after \in Logins
          /\ logins[pubLog[j].after].pc = "done"

\* C5: a publish call whose first k attempts fail and whose attempt k+1 is
\* confirmed resolves, after exactly k+1 attempts with the same body, with one
\* backoff delay and one completed login between consecutive attempts; with a
\* driver that answers, every publish call eventually resolves.
C5_PublishRetry ==
  /\ []C5_Attempts
  /\ (pub.pc # "idle") ~> (pub.pc = "resolved")

\* two failed attempts, then a confirmed one
C5_Witness ==
  /\ pub.pc = "resolved"
  /\ Len(pubLog) = 3
  /\ pubLog[1].out = "err"

\* C6: publish and login never reject: every failure of connect, of a channel
\* creation or of a publish attempt is followed by the backoff delay and
\* another attempt, whatever the number of failures before it.
C6_NeverSurfaced ==
  /\ pub.pc # "rejected"
  /\ \A i \in Logins :
        /\ logins[i].pc # "rejected"
        /\ logins[i].pc \in {"connect", "consumer", "publisher", "done"}
              => logins[i].attempts = logins[i].fails + 1
        /\ logins[i].pc = "sleep" => logins[i].attempts = logins[i].fails
  /\ (pubLog # <<>> /\ Last(pubLog).out \in {"err", "throw"})
        => pub.pc \in {"sleep", "awaitLogin"}

\* a login that failed and then succeeded, a publish that failed and then resolved
C6_Witness ==
  /\ \E i \in Logins : logins[i].fails >= 1 /\ logins[i].pc = "done"
  /\ pub.pc = "resolved"
  /\ Len(pubLog) >= 2

\* C7: the sequence listen returns never throws to its caller.
C7_ListenNeverThrows == genPc # "thrown"

\* C8: with no failure and no routing-key filter, the envelopes yielded are the
\* deliveries pushed, each once and in push order: what was pushed is what was
\* yielded followed by what is buffered, and a caller left waiting has
\* received every delivery pushed.
C8_Fifo ==
  ~opts.filter =>
    /\ hist.yielded \o buffer = hist.pushed
    /\ genPc = "waiting" => hist.yielded = hist.pushed

\* every delivery the bound allows was pushed and yielded
C8_Witness ==
  /\ ~opts.filter
  /\ Len(hist.pushed) = MaxFifoMsgs
  /\ hist.yielded = hist.pushed
  /\ genPc = "waiting"

Ids(q) == {q[k].id : k \in 1..Len(q)}

\* C9: every delivery pushed is in exactly one place, once: still buffered,
\* taken from the buffer by the pull loop (yielded), or dropped by the buffer
\* clear of a resubscription; no delivery is yielded twice.
C9_BufferAccounting ==
  /\ Len(hist.taken) + Len(hist.cleared) + Len(buffer) = Len(hist.pushed)
  /\ Ids(hist.taken) \cup Ids(hist.cleared) \cup Ids(buffer) = 1..Len(hist.pushed)
  /\ Range(hist.yielded) \subseteq Range(hist.taken)
  /\ Cardinality(Ids(hist.yielded)) = Len(hist.yielded)

\* one delivery was yielded and another dropped by a resubscription
C9_Witness ==
  /\ hist.cleared # <<>>
  /\ hist.yielded # <<>>

NacksOf(m) == {k \in 1..Len(hist.nacks) : hist.nacks[k].msg = m}

Decoded ==
  (<<"1">> :> <<"num">>) @@ (<<"{", "}">> :> <<"obj", "end">>)
  @@ (<<"{", "k", ":", "1", "}">> :> <<"obj", "k", "num", "end">>)

Accepted(q) == SelectSeq(q, LAMBDA m : ~(opts.filter /\ m.rk \notin opts.keys))

\* C11: with json enabled a body that is JSON yields contentIsJson = TRUE
\* and the decoded payload, a body that is not yields contentIsJson = FALSE and
\* an undefined payload, with json = false the payload is undefined and
\* contentIsJson FALSE; the envelope always carries the raw delivery and its
\* body, listen does not throw, and the deliveries that follow are yielded.
C11_JsonEnvelope ==
  /\ genPc # "thrown"
  /\ Len(hist.envelopes) = Len(hist.yielded)
  /\ \A k \in 1..Len(hist.envelopes) :
        LET e == hist.envelopes[k]
            m == hist.yielded[k]
        IN /\ e.raw = m
           /\ e.content = m.body
           /\ IF opts.json /\ m.body \in DOMAIN Decoded
              THEN e.contentIsJson /\ e.data = Decoded[m.body]
              ELSE ~e.contentIsJson /\ e.data = Undefined
  /\ hist.yielded \o Accepted(buffer) = Accepted(hist.pushed)
  /\ genPc = "waiting" => buffer = <<>>

\* json enabled: a body that is not JSON was yielded, then one that is
C11_Witness ==
  /\ opts.json
  /\ Len(hist.envelopes) = 2
  /\ ~hist.envelopes[1].contentIsJson
  /\ hist.envelopes[2].contentIsJson
  /\ hist.envelopes[2].data = <<"obj", "k", "num", "end">>
\* the deliveries a settle call sent on channel ch with delivery tag tag
\* settles at the broker
SettledBy(a) == {d \in Range(hist.pushed) : d.ch = a.ch /\ d.tag = a.tag}

\* C12: an ack or nack call settles the delivery its envelope was created
\* from and no other delivery, also when a reconnect replaced the consumer
\* channel after the envelope was yielded.
C12_SettlesOwnDelivery ==
  \A j \in 1..Len(hist.acks) :
     hist.acks[j].out = "sent" => SettledBy(hist.acks[j]) \subseteq {hist.acks[j].msg}
\* no login, close listener, resubscription or publish retry is running or
\* waiting: the program does nothing more until another event arrives
Idle ==
  /\ loginInProgress = 0
  /\ \A c \in Conns : closeH[c].pc \notin {"sleep", "awaitLogin"}
  /\ sc.pc \notin {"prefetch", "awaitLogin"}
  /\ pub.pc \notin {"sleep", "awaitLogin"}

\* C13: after a channel-level error on the consumer channel, with the
\* connection still open and the sequence's subscription made on it, the
\* program obtains a working consumer channel again: once it has nothing more
\* to run, the current consumer channel is open.
C13_ChannelRecovered ==
  (genPc \in {"waiting", "yielded"} /\ Idle /\ conn \in net.open /\ net.errL = conn)
     => channels.consumer \in net.consOpen
\* C14: within one publish call the delay before the n-th retry is drawn from
\* the window whose upper bound is 1000 doubled n-1 times, capped at 30000.
C14_PublishBackoff ==
  \A n \in 1..Len(pub.windows) : pub.windows[n] = Min(SleepBase * 2^(n - 1), SleepMax)
\* a login has completed on the current connection, which is open
Established ==
  /\ loginInProgress = 0
  /\ conn \in net.open
  /\ channels = [consumer |-> conn, publisher |-> conn]

\* C15: a connection established by a completed login carries a close
\* listener; when a connection emits close with its listener attached, the
\* listener waits one backoff delay and calls login(), and its call returns:
\* at that moment a later connection with both channels is established and
\* carries its own close listener, whatever failed in between.
C15_ReArmingReconnect ==
  /\ [](Established => net.closeL[conn] # 0)
  /\ \A c \in Conns : (closeH[c].pc = "sleep") ~> (closeH[c].pc = "done")
  /\ [][\A c \in Conns :
          (closeH[c].pc = "awaitLogin" /\ closeH'[c].pc = "done")
             => (Established' /\ conn' > c /\ net'.closeL[conn'] # 0)]_vars

\* the close listener of the first connection has run to its end, through a
\* login that failed once, and the connection established carries a listener
C15_Witness ==
  /\ closeH[1].pc = "done"
  /\ \E i \in Logins : i > 1 /\ logins[i].fails >= 1 /\ logins[i].pc = "done"
  /\ Established
  /\ net.closeL[conn] # 0
\* C16: the close listener of a connection that a login established waits a
\* delay drawn from the base window, however many attempts of that login
\* failed before it succeeded.
C16_BackoffReset ==
  \A c \in Conns :
     (/\ closeH[c].pc # "none"
      /\ logins[closeH[c].sl].pc = "done"
      /\ logins[closeH[c].sl].conn = c)
        => closeH[c].win = SleepBase
\* c_k: c_1 = base, c_{k+1} = min(2 * c_k, max)
RECURSIVE WindowAt(_, _, _)
WindowAt(base, max, k) ==
  IF k = 1 THEN base ELSE Min(2 * WindowAt(base, max, k - 1), max)

\* C17: the k-th delay of a backoff sequence lies in [c_k / 2, c_k) and does
\* not exceed max (delays are in half milliseconds); the window of the next
\* call is c_{k+1}, it is not smaller than c_k, and it stays at max once c_k
\* is max.
C17_BackoffBounds ==
  expSleeper.calls >= 1 =>
    LET k == expSleeper.calls
        c == WindowAt(expSleeper.base, expSleeper.max, k)
    IN /\ expSleeper.delay >= c
       /\ expSleeper.delay < 2 * c
       /\ expSleeper.delay <= 2 * expSleeper.max
       /\ expSleeper.current = WindowAt(expSleeper.base, expSleeper.max, k + 1)
       /\ expSleeper.current >= c
       /\ c = expSleeper.max => expSleeper.current = expSleeper.max

\* getExpSleeper(1000, 30000) after the call whose window was the cap
C17_Witness ==
  /\ expSleeper.base = SleepBase
  /\ expSleeper.max = SleepMax
  /\ expSleeper.calls = 6
  /\ expSleeper.current = SleepMax
  /\ expSleeper.delay >= SleepMax
ConsumerOps == {"prefetch", "consume", "ack", "nack"}
PublisherOps == {"publish", "configure", "assertExchange", "assertQueue", "bindQueue"}

\* every call made on a channel so far: the operation and the reference used
AllCalls ==
  hist.ops
  \cup {[op |-> "nack", role |-> hist.nacks[k].role] : k \in 1..Len(hist.nacks)}
  \cup {[op |-> hist.acks[k].op, role |-> hist.acks[k].role] : k \in 1..Len(hist.acks)}
  \cup {[op |-> "publish", role |-> pubLog[k].role] : k \in 1..Len(pubLog)}

FairPull == SpecPull /\ WF_vars(Resume) /\ WF_vars(Pull)

\* C19: no lost wake-up in the pull loop.  The sequence is never suspended on
\* the notification while the buffer holds a delivery; every delivery pushed is
\* eventually taken from the buffer when the caller keeps pulling; and every
\* delivery taken that the filter does not reject is yielded.
C19_NoLostWakeup ==
  /\ [](genPc = "waiting" => buffer = <<>>)
  /\ \A n \in 1..MaxPullMsgs : (Len(hist.pushed) >= n) ~> (Len(hist.taken) >= n)
  /\ [](\A k \in 1..Len(hist.taken) :
          ~Rejected(opts, hist.taken[k]) =>
            \E y \in 1..Len(hist.yielded) : hist.yielded[y] = hist.taken[k])

\* the loop has handed out a delivery and suspended again, and several
\* deliveries arrive before its continuation runs
C19_Witness ==
  /\ genPc = "woken"
  /\ Len(buffer) >= 2
  /\ Len(hist.taken) >= 1


(***************************************************************************)
(* C20                                                                     *)
(***************************************************************************)
\* at most one connection opened by the instance has not been through
\* cleanup: the one conn refers to
OneLiveConnection == (1..net.nConn) \ net.torn \subseteq {conn}

\* a connection that has been through cleanup has no close listener attached,
\* is closed, and so are the channels the instance holds no reference to
TornDetached ==
  \A c \in net.torn :
    /\ net.closeL[c] = 0
    /\ net.errL # c
    /\ c \notin net.open

\* the close listener of connection c started a login sequence by a login()
\* call made after cleanup had been applied to c
LateLogin(c) == closeH[c].late /\ closeH[c].began # 0

\* C20: superseded resources are torn down.  At most one connection opened by
\* the instance has not been torn down, a torn-down connection keeps no
\* listener, and no login is started through the close listener of a
\* connection that has been torn down.
C20_SupersededTornDown ==
  /\ OneLiveConnection
  /\ TornDetached
  /\ \A c \in Conns : ~LateLogin(c)


(***************************************************************************)
(* C21                                                                     *)
(***************************************************************************)
\* the close listener of connection c started a login sequence whose cleanup
\* was applied to another connection, which was open
StaleCloseTeardown(c) ==
  /\ closeH[c].began # 0
  /\ closeH[c].tore # c
  /\ closeH[c].hit

\* the publish call started a login sequence after an attempt failed on the
\* publisher channel of one connection, and the sequence's cleanup was applied
\* to another connection, which was open
StalePublishTeardown ==
  /\ pub.began # 0
  /\ pub.tore # pub.of
  /\ pub.hit

\* C21: a healthy connection is not torn down by a stale failure signal.  A
\* login sequence started by a close listener, or by publish after a failed
\* attempt, tears down an open connection only if that is the listener's own
\* connection, or the connection of the channel the attempt failed on.
C21_NoStaleTeardown ==
  /\ \A c \in Conns : ~StaleCloseTeardown(c)
  /\ ~StalePublishTeardown

====
